---- MODULE Spec2Model ----
(***************************************************************************)
(* A model of disklru.DiskLRUCache (src/src/disklru/disklru.py): the cache *)
(* table, the metadata 'size' counter, the per-thread connection pool and  *)
(* the public operations, each as the transaction the code runs.           *)
(***************************************************************************)
EXTENDS Integers, Sequences, FiniteSets, TLC

(* ------------------------------ bounds -------------------------------- *)
\* Number of distinct keys the callers of the general specification use.
NumKeys == 3
\* Largest decimal string "0".."MaxVal" the callers use as a value.
MaxVal == 1
\* Last second of the wall clock the model follows.
MaxTime == 1
\* Largest max_entries a cache is opened with.
MaxEntries == 2
\* Worker threads of the concurrent compare_and_swap callers.
NumThreads == 2
\* Successes each worker thread has to collect.
IterationsPerThread == 2
\* Largest number of rows the counter may fall behind the cache table by:
\* caps the counter, which compare_and_swap would let drift without limit.
MaxDrift == 2
\* Instants within one second that a datetime passed to purge can name.
TicksPerSecond == 2
\* Calls each thread of the concurrent callers makes.
CallsPerThread == 2
\* Largest max_connections a cache with a small pool is opened with.
MaxConnections == 2
\* Calls the caller of two cache instances makes.
InstanceCalls == 3

(* --------------------------- program constants ------------------------ *)
\* DiskLRUCache.MAX_CONNECTIONS, the default of max_connections.
MAX_CONNECTIONS == 50
\* sqlite3.Cursor.arraysize, which compare_and_swap reads: never assigned,
\* so it keeps the value the cursor is created with.
arraysize == 1

(* ------------------------------ values -------------------------------- *)
KeyNames == <<"key1", "key2", "key3", "key4", "key5", "key6">>
Keys == {KeyNames[i] : i \in 1..NumKeys}

\* str(n) and int(s) on the decimal strings the callers use.
Digits == <<"0", "1", "2", "3", "4", "5", "6", "7", "8", "9">>
str(n) == Digits[n + 1]
int(s) == CHOOSE n \in 0..9 : Digits[n + 1] = s
Values == {str(n) : n \in 0..MaxVal}

\* Optional[...]: None is the empty tuple, a value x is <<x>>.
None == <<>>
Some(x) == <<x>>
Optional(S) == {None} \cup {Some(x) : x \in S}

\* str.encode("utf-8") and bytes.decode("utf-8"): a bytes object is kept
\* apart from the str it encodes.
encode(s) == <<"utf-8", s>>
decode(b) == b[2]

\* The one thread of the single-context specifications.
MainThread == 0

\* The locations the tests open their caches on: a file, and the name that
\* gives every sqlite3 connection a database of its own.
LRU_CACHE_FILE == "test.db"
MEMORY == ":memory:"
\* The db_path of a second cache opened by the same program.
OTHER_CACHE_FILE == "other.db"

VARIABLES
    cache,        \* table cache: key -> [timestamp, value], a row per Entry
    metadata,     \* table metadata: "size" -> counter, once the schema exists
    now,          \* the last second read from the wall clock
    max_entries,  \* self.max_entries
    max_connections, \* self.max_connections
    db_path,      \* self.db_path
    connections,  \* DiskLRUCache._connections: thread id -> last access time
    closed,       \* self._closed
    write_lock,   \* the thread whose connection holds the database's write lock
    last,         \* the last completed call: its arguments and what it returned
    step,         \* calls made so far by the scripted caller (SpecLRU)
    workers,      \* thread id -> the locals of a thread of concurrent callers
    swaps,        \* the compare_and_swap calls that reported success (SpecCAS)
    other         \* a second DiskLRUCache, opened on another location (SpecInstances)

vars == <<cache, metadata, now, max_entries, max_connections, db_path, connections,
          closed, write_lock, last, step, workers, swaps, other>>
callers == <<step, workers, swaps, other>>

Restrict(f, S) == [x \in S |-> f[x]]

\* One reading of datetime.now(): the clock never runs backwards.
ClockReadings == now..MaxTime

\* The record of a completed call: the operation and its arguments (key; prev,
\* the expected value of compare_and_swap; val, the value or cutoff passed),
\* what it returned or raised, and the locals of the call the properties read:
\* lru_key (the row put_bytes evicted), rowcount (the cursor.rowcount that
\* compare_and_swap tests), to_delete (the count purge reads), after_put (the
\* call before this get was a put of the same key), executed (the number
\* of statements that had written when a store error ended the call) and
\* key_exists (what the first SELECT of put_bytes found).
Call(op, key, prev, val, ret, raised) ==
    [op |-> op, key |-> key, prev |-> prev, val |-> val, ret |-> ret,
     raised |-> raised, lru_key |-> None, rowcount |-> None, to_delete |-> None,
     after_put |-> FALSE, executed |-> None, key_exists |-> FALSE]
NoCall == Call("none", "", None, None, None, "none")

(* --------------------------- _get_session ----------------------------- *)
\* The executescript of a new session: CREATE TABLE IF NOT EXISTS and
\* INSERT OR IGNORE INTO metadata ('size', 0).
executescript(md) ==
    IF "size" \in DOMAIN md THEN md ELSE [x \in {"size"} |-> 0]

\* The metadata table once `thread` holds a session.
session_metadata(thread) ==
    IF thread \in DOMAIN connections THEN metadata ELSE executescript(metadata)

\* Mutation of get_session: the sessions sorted without reverse=True, so that
\* the slice drops the most recently used ones.
get_session_newest_dropped(thread, current_time) ==
    IF thread \in DOMAIN connections
    THEN {[connections EXCEPT ![thread] = current_time]}
    ELSE IF Cardinality(DOMAIN connections) >= max_connections
         THEN {[x \in keep \cup {thread} |->
                    IF x = thread THEN current_time ELSE connections[x]] :
               keep \in {K \in SUBSET DOMAIN connections :
                           /\ Cardinality(K) = max_connections - 1
                           /\ \A a \in K, b \in DOMAIN connections \ K :
                                  connections[a] <= connections[b]}}
         ELSE {[x \in DOMAIN connections \cup {thread} |->
                    IF x = thread THEN current_time ELSE connections[x]]}

\* The pools _get_session can leave behind for `thread` at `current_time`.
\* A thread already in the pool has its access time refreshed; otherwise,
\* at the limit, only the max_connections - 1 most recently used sessions
\* are kept (sessions of equal age in the order the sort leaves them).
get_session(thread, current_time) ==
    IF thread \in DOMAIN connections
    THEN {[connections EXCEPT ![thread] = current_time]}
    ELSE IF Cardinality(DOMAIN connections) >= max_connections
         THEN {[x \in keep \cup {thread} |->
                    IF x = thread THEN current_time ELSE connections[x]] :
               keep \in {K \in SUBSET DOMAIN connections :
                           /\ Cardinality(K) = max_connections - 1
                           /\ \A a \in K, b \in DOMAIN connections \ K :
                                  connections[a] >= connections[b]}}
         ELSE {[x \in DOMAIN connections \cup {thread} |->
                    IF x = thread THEN current_time ELSE connections[x]]}

(* --------------------------- transactions ----------------------------- *)
\* What a connection reads and writes: the rows of cache and of metadata. A
\* transaction is the sequence of databases its connection sees, the first
\* when it begins and one more after each statement that writes.
Database(c, md) == [cache |-> c, metadata |-> md]

\* UPDATE metadata SET value = value + delta WHERE key='size'
add_size(md, delta) == [md EXCEPT !["size"] = @ + delta]

\* Mutation of delete_row: DELETE FROM cache without its WHERE clause.
delete_every_row(c, key) == Restrict(c, {})

\* DELETE FROM cache WHERE key = ?
delete_row(c, key) == Restrict(c, DOMAIN c \ {key})

\* conn.commit(): what the last statement left becomes the database.
commit(transaction) == transaction[Len(transaction)]

(* ------------------------------ put ----------------------------------- *)
\* Mutation of must_evict: the limit tested with > in place of >=.
must_evict_above_limit(key_exists, current_size) ==
    ~key_exists /\ current_size > max_entries

\* Mutation of must_evict: the limit tested for every key, new or not.
must_evict_any_key(key_exists, current_size) ==
    current_size >= max_entries

\* put_bytes: "if not key_exists and current_size >= self.max_entries".
must_evict(key_exists, current_size) ==
    ~key_exists /\ current_size >= max_entries

\* Mutation of lru_keys: ORDER BY timestamp DESC.
mru_keys(c) ==
    {k \in DOMAIN c : \A j \in DOMAIN c : c[k].timestamp >= c[j].timestamp}

\* SELECT key FROM cache ORDER BY timestamp ASC LIMIT 1: a row of least
\* timestamp; SQL leaves the choice among equal timestamps open.
lru_keys(c) ==
    {k \in DOMAIN c : \A j \in DOMAIN c : c[k].timestamp <= c[j].timestamp}

\* Mutation of insert_or_replace: INSERT OR IGNORE, an existing row is kept.
insert_or_ignore(c, key, timestamp, value) ==
    [x \in DOMAIN c \cup {key} |->
        IF x \in DOMAIN c THEN c[x] ELSE [timestamp |-> timestamp, value |-> value]]

\* INSERT OR REPLACE INTO cache (key, timestamp, value).
insert_or_replace(c, key, timestamp, value) ==
    [x \in DOMAIN c \cup {key} |->
        IF x = key THEN [timestamp |-> timestamp, value |-> value] ELSE c[x]]

\* The statements of put_bytes after its two SELECTs, lru_key being the row
\* the third one finds: DELETE and UPDATE size - 1 when a row is evicted,
\* INSERT OR REPLACE, UPDATE size + 1 for a new key.
put_bytes_transaction(db, key, value, timestamp, key_exists, current_size, lru_key) ==
    LET evict == must_evict(key_exists, current_size)
        s1 == IF evict THEN [db EXCEPT !.cache = delete_row(@, lru_key)] ELSE db
        s2 == IF evict THEN [s1 EXCEPT !.metadata = add_size(@, -1)] ELSE s1
        s3 == [s2 EXCEPT !.cache = insert_or_replace(@, key, timestamp, value)]
        s4 == IF key_exists THEN s3 ELSE [s3 EXCEPT !.metadata = add_size(@, 1)]
    IN  <<db, s1, s2, s3, s4>>

\* The transaction of put_bytes, from BEGIN IMMEDIATE to commit. With nothing
\* to evict although the counter is at the limit, fetchone() is None and the
\* TypeError rolls the transaction back.
put_bytes(thread, key, value, str_value) ==
    \E t \in ClockReadings : \E pool \in get_session(thread, t) :
        LET md == session_metadata(thread)
            key_exists == key \in DOMAIN cache
            current_size == md["size"]
            evict == must_evict(key_exists, current_size)
        IN  /\ now' = t
            /\ connections' = pool
            /\ UNCHANGED <<max_entries, max_connections, db_path, closed, write_lock>>
            /\ IF evict /\ DOMAIN cache = {}
               THEN /\ cache' = cache
                    /\ metadata' = md
                    /\ last' = Call("put", key, None, Some(str_value), None, "TypeError")
               ELSE \E lru_key \in (IF evict THEN lru_keys(cache) ELSE {key}) :
                       LET transaction ==
                               put_bytes_transaction(Database(cache, md), key,
                                   value, t, key_exists, current_size, lru_key)
                       IN  /\ cache' = commit(transaction).cache
                           /\ metadata' = commit(transaction).metadata
                           /\ last' = [Call("put", key, None, Some(str_value), None, "none")
                                      EXCEPT !.lru_key = IF evict THEN Some(lru_key) ELSE None,
                                             !.key_exists = key_exists]

\* put(key, value): put_bytes(key, value.encode("utf-8")).
put(thread, key, value) == put_bytes(thread, key, encode(value), value)

(* ------------------------------ get ----------------------------------- *)
\* get_bytes: SELECT value; a row found has its timestamp set to now.
get_bytes_result(c, key) ==
    IF key \in DOMAIN c THEN Some(c[key].value) ELSE None

\* get: the bytes decoded, or None.
get_result(c, key) ==
    LET result == get_bytes_result(c, key)
    IN  IF result # None THEN Some(decode(result[1])) ELSE None

update_timestamp(c, key, timestamp) ==
    IF key \in DOMAIN c THEN [c EXCEPT ![key].timestamp = timestamp] ELSE c

\* The statement of get_bytes after its SELECT found a row: the UPDATE of
\* the timestamp.
get_bytes_transaction(db, key, timestamp) ==
    <<db, [db EXCEPT !.cache = update_timestamp(@, key, timestamp)]>>

get(thread, key) ==
    \E t \in ClockReadings : \E pool \in get_session(thread, t) :
        /\ now' = t
        /\ connections' = pool
        /\ metadata' = session_metadata(thread)
        /\ cache' = commit(get_bytes_transaction(
                         Database(cache, session_metadata(thread)), key, t)).cache
        /\ last' = [Call("get", key, None, None, get_result(cache, key), "none")
                    EXCEPT !.after_put = last.op = "put" /\ last.key = key
                                            /\ last.raised = "none"]
        /\ UNCHANGED <<max_entries, max_connections, db_path, closed, write_lock>>

(* ----------------------- __contains__, get_size ----------------------- *)
contains(thread, key) ==
    \E t \in ClockReadings : \E pool \in get_session(thread, t) :
        /\ now' = t
        /\ connections' = pool
        /\ metadata' = session_metadata(thread)
        /\ last' = Call("contains", key, None, None, key \in DOMAIN cache, "none")
        /\ UNCHANGED <<cache, max_entries, max_connections, db_path, closed, write_lock>>

\* get_size: SELECT value FROM metadata WHERE key='size'.
get_size(thread) ==
    \E t \in ClockReadings : \E pool \in get_session(thread, t) :
        /\ now' = t
        /\ connections' = pool
        /\ metadata' = session_metadata(thread)
        /\ last' = Call("get_size", "", None, None,
                        session_metadata(thread)["size"], "none")
        /\ UNCHANGED <<cache, max_entries, max_connections, db_path, closed, write_lock>>

(* ------------------------------ delete -------------------------------- *)
\* The statements of delete after its SELECT found the row.
delete_transaction(db, key) ==
    LET s1 == [db EXCEPT !.cache = delete_row(@, key)]
    IN  <<db, s1, [s1 EXCEPT !.metadata = add_size(@, -1)]>>

\* delete: a row found is deleted and the counter lowered by one; rowcount is
\* that of the DELETE, which is not run when the SELECT finds no row.
delete(thread, key) ==
    \E t \in ClockReadings : \E pool \in get_session(thread, t) :
        LET md == session_metadata(thread)
        IN  /\ now' = t
            /\ connections' = pool
            /\ IF key \in DOMAIN cache
               THEN LET transaction == delete_transaction(Database(cache, md), key)
                    IN  /\ cache' = commit(transaction).cache
                        /\ metadata' = commit(transaction).metadata
               ELSE /\ cache' = cache
                    /\ metadata' = md
            /\ last' = [Call("delete", key, None, None, None, "none")
                        EXCEPT !.rowcount = IF key \in DOMAIN cache
                                            THEN Some(1) ELSE None]
            /\ UNCHANGED <<max_entries, max_connections, db_path, closed, write_lock>>

(* ------------------------------ purge --------------------------------- *)
\* A datetime is an instant counted in ticks; the clock's second s is the
\* instant s * TicksPerSecond.
Datetimes == 0..(TicksPerSecond * (MaxTime + 1) - 1)

\* int(timestamp.astimezone(timezone.utc).timestamp()): the whole seconds.
int_timestamp(timestamp) == timestamp \div TicksPerSecond

\* Mutation of purged_keys: WHERE timestamp < ?.
purged_keys_before(c, utc_timestamp) ==
    {k \in DOMAIN c : c[k].timestamp < utc_timestamp}

\* The rows purge selects: timestamp <= utc_timestamp.
purged_keys(c, utc_timestamp) ==
    {k \in DOMAIN c : c[k].timestamp <= utc_timestamp}

\* The statements of purge after its SELECT COUNT(*) returned to_delete: the
\* DELETE of the rows up to the cutoff, the UPDATE when to_delete > 0.
purge_transaction(db, utc_timestamp, to_delete) ==
    LET s1 == [db EXCEPT !.cache =
                   Restrict(@, DOMAIN @ \ purged_keys(@, utc_timestamp))]
    IN  <<db, s1,
          IF to_delete > 0 THEN [s1 EXCEPT !.metadata = add_size(@, -to_delete)]
                           ELSE s1>>

\* purge: count, delete, and lower the counter by the count when it is > 0.
purge(thread, timestamp) ==
    \E t \in ClockReadings : \E pool \in get_session(thread, t) :
        LET md == session_metadata(thread)
            utc_timestamp == int_timestamp(timestamp)
            to_delete == Cardinality(purged_keys(cache, utc_timestamp))
            transaction ==
                purge_transaction(Database(cache, md), utc_timestamp, to_delete)
        IN  /\ now' = t
            /\ connections' = pool
            /\ cache' = commit(transaction).cache
            /\ metadata' = commit(transaction).metadata
            /\ last' = [Call("purge", "", None, Some(timestamp), None, "none")
                        EXCEPT !.to_delete = Some(to_delete)]
            /\ UNCHANGED <<max_entries, max_connections, db_path, closed, write_lock>>

(* ------------------------------ clear --------------------------------- *)
\* Mutation of reset_size: the counter is left as it is.
keep_size(md) == md

\* UPDATE metadata SET value = 0 WHERE key='size'
reset_size(md) == [md EXCEPT !["size"] = 0]

\* The statements of clear.
clear_transaction(db) ==
    LET s1 == [db EXCEPT !.cache = Restrict(@, {})]
    IN  <<db, s1, [s1 EXCEPT !.metadata = reset_size(@)]>>

\* clear: DELETE FROM cache, whose rowcount is the number of rows there were,
\* then the counter reset.
clear(thread) ==
    \E t \in ClockReadings : \E pool \in get_session(thread, t) :
        /\ now' = t
        /\ connections' = pool
        /\ cache' = commit(clear_transaction(
                         Database(cache, session_metadata(thread)))).cache
        /\ metadata' = commit(clear_transaction(
                            Database(cache, session_metadata(thread)))).metadata
        /\ last' = [Call("clear", "", None, None, None, "none")
                    EXCEPT !.rowcount = Some(Cardinality(DOMAIN cache))]
        /\ UNCHANGED <<max_entries, max_connections, db_path, closed, write_lock>>

(* ------------------------------ close --------------------------------- *)
\* close: the pool is emptied and _closed set; nothing else is touched.
close ==
    /\ connections' = <<>>
    /\ closed' = TRUE
    /\ last' = Call("close", "", None, None, None, "none")
    /\ UNCHANGED <<cache, metadata, now, max_entries, max_connections, db_path, write_lock>>

(* ------------------------- compare_and_swap --------------------------- *)
\* prev_val.encode("utf-8") if prev_val is not None else None
encode_optional(val) == IF val # None THEN Some(encode(val[1])) ELSE None

\* DELETE FROM cache WHERE key = ? AND (? IS NULL AND value IS NULL OR
\* value = ?): the stored value is never NULL, and value = NULL is not true.
cas_delete_matches(c, key, prev_val_bytes) ==
    /\ key \in DOMAIN c
    /\ prev_val_bytes # None
    /\ c[key].value = prev_val_bytes[1]

\* INSERT ... ON CONFLICT(key) DO UPDATE ... WHERE (cache.value = ?): a
\* missing key is inserted whatever prev_val is; an existing row is updated
\* when its value equals prev_val, which NULL never does.
cas_upsert_writes(c, key, prev_val_bytes) ==
    \/ key \notin DOMAIN c
    \/ /\ prev_val_bytes # None
       /\ c[key].value = prev_val_bytes[1]

\* Mutation of cas_counts_insert: every write is counted as an insert.
cas_counts_write(rowcount, prev_val) == rowcount > 0

\* "if cursor.rowcount > 0 and prev_val is None": the counter grows.
cas_counts_insert(rowcount, prev_val) == rowcount > 0 /\ prev_val = None

\* success = cursor.arraysize > 0
cas_success == arraysize > 0

\* What compare_and_swap returns after the commit, the store being c:
\* (success, None), or on failure the row's value re-encoded, which bytes
\* do not allow (AttributeError).
cas_return(c, key) ==
    IF cas_success
    THEN [success |-> TRUE, value |-> None, raised |-> "none"]
    ELSE [success |-> FALSE, value |-> None,
          raised |-> IF key \in DOMAIN c THEN "AttributeError" ELSE "none"]

\* cursor.rowcount after the DELETE (new_val is None) or the INSERT ... ON
\* CONFLICT of compare_and_swap.
cas_rowcount(c, key, prev_val_bytes, new_val_bytes) ==
    IF new_val_bytes = None
    THEN IF cas_delete_matches(c, key, prev_val_bytes) THEN 1 ELSE 0
    ELSE IF cas_upsert_writes(c, key, prev_val_bytes) THEN 1 ELSE 0

\* The statements of compare_and_swap: the DELETE or the INSERT ... ON
\* CONFLICT, then the UPDATE of the counter its rowcount calls for.
compare_and_swap_transaction(db, key, prev_val, new_val, timestamp) ==
    LET prev_val_bytes == encode_optional(prev_val)
        new_val_bytes == encode_optional(new_val)
        rowcount == cas_rowcount(db.cache, key, prev_val_bytes, new_val_bytes)
        s1 == IF rowcount = 0 THEN db
              ELSE IF new_val = None
                   THEN [db EXCEPT !.cache = delete_row(@, key)]
                   ELSE [db EXCEPT !.cache =
                            insert_or_replace(@, key, timestamp, new_val_bytes[1])]
        delta == IF new_val = None
                 THEN IF rowcount > 0 THEN -1 ELSE 0
                 ELSE IF cas_counts_insert(rowcount, prev_val) THEN 1 ELSE 0
    IN  <<db, s1, [s1 EXCEPT !.metadata = add_size(@, delta)]>>

compare_and_swap(thread, key, prev_val, new_val) ==
    \E t \in ClockReadings : \E pool \in get_session(thread, t) :
        LET md == session_metadata(thread)
            rowcount == cas_rowcount(cache, key, encode_optional(prev_val),
                                     encode_optional(new_val))
            transaction == compare_and_swap_transaction(
                               Database(cache, md), key, prev_val, new_val, t)
            c1 == commit(transaction).cache
        IN  /\ now' = t
            /\ connections' = pool
            /\ cache' = c1
            /\ metadata' = commit(transaction).metadata
            /\ last' = [Call("compare_and_swap", key, prev_val, new_val,
                             [success |-> cas_return(c1, key).success,
                              value |-> cas_return(c1, key).value],
                             cas_return(c1, key).raised)
                        EXCEPT !.rowcount = Some(rowcount)]
            /\ UNCHANGED <<max_entries, max_connections, db_path, closed, write_lock>>

(* --------------------------- specification ---------------------------- *)
\* A cache just constructed on a new file: no session, no schema yet.
InitStore ==
    /\ cache = <<>>
    /\ metadata = <<>>
    /\ now = 0
    /\ connections = <<>>
    /\ db_path = LRU_CACHE_FILE
    /\ closed = FALSE
    /\ write_lock = None
    /\ last = NoCall

Init ==
    /\ InitStore
    /\ max_entries \in 1..MaxEntries
    /\ max_connections = MAX_CONNECTIONS
    /\ step = 0
    /\ workers = <<>>
    /\ swaps = <<>>
    /\ other = None

\* One caller, any public operation with any arguments.
Put == (\E k \in Keys, v \in Values : put(MainThread, k, v)) /\ UNCHANGED callers
Get == (\E k \in Keys : get(MainThread, k)) /\ UNCHANGED callers
Delete == (\E k \in Keys : delete(MainThread, k)) /\ UNCHANGED callers
Purge ==
    (\E timestamp \in Datetimes : purge(MainThread, timestamp)) /\ UNCHANGED callers
Clear == clear(MainThread) /\ UNCHANGED callers
Contains == (\E k \in Keys : contains(MainThread, k)) /\ UNCHANGED callers
GetSize == get_size(MainThread) /\ UNCHANGED callers
CompareAndSwap ==
    /\ \E k \in Keys, prev_val \in Optional(Values), new_val \in Optional(Values) :
           compare_and_swap(MainThread, k, prev_val, new_val)
    /\ Cardinality(DOMAIN cache') - metadata'["size"] <= MaxDrift
    /\ UNCHANGED callers
Close == close /\ UNCHANGED callers

Next ==
    \/ Put
    \/ Get
    \/ Delete
    \/ Purge
    \/ Clear
    \/ Contains
    \/ GetSize
    \/ CompareAndSwap
    \/ Close

Spec == Init /\ [][Next]_vars

(* ---------------------- operations that fail -------------------------- *)
\* Every operation runs its statements in "try: ... except: conn.rollback();
\* raise". A store error (sqlite3.Error: the disk is full, the lock wait
\* timed out, ...) can end any statement, the commit included.

\* The transactions a store error can leave: the statements that wrote before
\* the one that failed, none of them to all of them.
interrupted(transaction) ==
    {SubSeq(transaction, 1, n) : n \in 1..Len(transaction)}

\* Mutation of rollback: what the statements wrote is kept.
rollback_keeps_writes(transaction) == transaction[Len(transaction)]

\* conn.rollback(): the database is what it was when the transaction began.
rollback(transaction) == transaction[1]

\* A call of `thread` ended by a store error: the session is there (it is
\* taken before the try), the transaction is rolled back and the error
\* raised again.
store_error(thread, transaction, call) ==
    \E t \in ClockReadings : \E pool \in get_session(thread, t) :
    \E partial \in interrupted(transaction) :
        /\ now' = t
        /\ connections' = pool
        /\ cache' = rollback(partial).cache
        /\ metadata' = rollback(partial).metadata
        /\ last' = [call EXCEPT !.raised = "sqlite3.Error",
                                !.executed = Some(Len(partial) - 1)]
        /\ UNCHANGED <<max_entries, max_connections, db_path, closed, write_lock>>

PutFails ==
    /\ \E k \in Keys, v \in Values, t \in ClockReadings :
        LET db == Database(cache, session_metadata(MainThread))
            key_exists == k \in DOMAIN cache
            current_size == db.metadata["size"]
            evict == must_evict(key_exists, current_size)
        IN  \E lru_key \in (IF evict /\ DOMAIN cache # {}
                             THEN lru_keys(cache) ELSE {k}) :
                store_error(MainThread,
                    IF evict /\ DOMAIN cache = {} THEN <<db>>
                    ELSE put_bytes_transaction(db, k, encode(v), t, key_exists,
                                               current_size, lru_key),
                    Call("put", k, None, Some(v), None, "none"))
    /\ UNCHANGED callers

GetFails ==
    /\ \E k \in Keys, t \in ClockReadings :
        LET db == Database(cache, session_metadata(MainThread))
        IN  store_error(MainThread,
                IF k \in DOMAIN cache THEN get_bytes_transaction(db, k, t)
                                      ELSE <<db>>,
                Call("get", k, None, None, None, "none"))
    /\ UNCHANGED callers

DeleteFails ==
    /\ \E k \in Keys :
        LET db == Database(cache, session_metadata(MainThread))
        IN  store_error(MainThread,
                IF k \in DOMAIN cache THEN delete_transaction(db, k) ELSE <<db>>,
                Call("delete", k, None, None, None, "none"))
    /\ UNCHANGED callers

PurgeFails ==
    /\ \E timestamp \in Datetimes :
        LET db == Database(cache, session_metadata(MainThread))
            utc_timestamp == int_timestamp(timestamp)
        IN  store_error(MainThread,
                purge_transaction(db, utc_timestamp,
                    Cardinality(purged_keys(cache, utc_timestamp))),
                Call("purge", "", None, Some(timestamp), None, "none"))
    /\ UNCHANGED callers

ClearFails ==
    /\ store_error(MainThread,
           clear_transaction(Database(cache, session_metadata(MainThread))),
           Call("clear", "", None, None, None, "none"))
    /\ UNCHANGED callers

CompareAndSwapFails ==
    /\ \E k \in Keys, prev_val \in Optional(Values), new_val \in Optional(Values),
          t \in ClockReadings :
        store_error(MainThread,
            compare_and_swap_transaction(
                Database(cache, session_metadata(MainThread)), k, prev_val,
                new_val, t),
            Call("compare_and_swap", k, prev_val, new_val, None, "none"))
    /\ UNCHANGED callers

NextFault ==
    \/ Put
    \/ Get
    \/ Delete
    \/ Purge
    \/ Clear
    \/ PutFails
    \/ GetFails
    \/ DeleteFails
    \/ PurgeFails
    \/ ClearFails
    \/ CompareAndSwapFails

SpecFault == Init /\ [][NextFault]_vars

(* ------------------ callers that add Entries by put only --------------- *)
\* Every operation but compare_and_swap: put is the one that adds Entries.
NextPut ==
    \/ Put
    \/ Get
    \/ Delete
    \/ Purge
    \/ Clear
    \/ GetSize

SpecPut == Init /\ [][NextPut]_vars

(* ------------------------ the scripted LRU caller ---------------------- *)
\* test_disklru.py opens its cache with DiskLRUCache(LRU_CACHE_FILE, 4).
LruMaxEntries == 4

InitLRU ==
    /\ InitStore
    /\ max_entries = LruMaxEntries
    /\ max_connections = MAX_CONNECTIONS
    /\ step = 0
    /\ workers = <<>>
    /\ swaps = <<>>
    /\ other = None

\* put key1 .. key4, in that order.
LruFill ==
    /\ step < LruMaxEntries
    /\ \E v \in Values : put(MainThread, KeyNames[step + 1], v)
    /\ step' = step + 1
    /\ UNCHANGED <<workers, swaps, other>>

\* get key1.
LruRefresh ==
    /\ step = LruMaxEntries
    /\ get(MainThread, KeyNames[1])
    /\ step' = step + 1
    /\ UNCHANGED <<workers, swaps, other>>

\* put key5.
LruOverflow ==
    /\ step = LruMaxEntries + 1
    /\ \E v \in Values : put(MainThread, KeyNames[LruMaxEntries + 1], v)
    /\ step' = step + 1
    /\ UNCHANGED <<workers, swaps, other>>

NextLRU == LruFill \/ LruRefresh \/ LruOverflow

SpecLRU == InitLRU /\ [][NextLRU]_vars

(* ------------------ concurrent compare_and_swap callers ---------------- *)
\* The caller of test_concurrent_compare_and_swap: the main thread clears the
\* cache and sets the key to "0" by compare_and_swap(key, None, "0"); each
\* worker then repeats get / compare_and_swap until it has collected its
\* successes. The new value is the one read plus one. A get is two
\* transactions (the SELECT, then the UPDATE of the timestamp with its
\* commit); compare_and_swap is one, opened by BEGIN IMMEDIATE.
CasMaxEntries == 16
RetryLimit == 100
shared_key == "shared_counter"
Threads == 1..NumThreads

Worker(pc, current_val, local_successes, retry_count) ==
    [pc |-> pc, current_val |-> current_val,
     local_successes |-> local_successes, retry_count |-> retry_count]

InitCAS ==
    /\ InitStore
    /\ max_entries = CasMaxEntries
    /\ max_connections = MAX_CONNECTIONS
    /\ step = 0
    /\ workers = [t \in Threads |-> Worker("get", None, 0, 0)]
    /\ swaps = <<>>
    /\ other = None

\* self.cache.clear()
SetupClear ==
    /\ step = 0
    /\ clear(MainThread)
    /\ step' = 1
    /\ UNCHANGED <<workers, swaps, other>>

\* success, old = self.cache.compare_and_swap(shared_key, None, "0")
SetupCounter ==
    /\ step = 1
    /\ compare_and_swap(MainThread, shared_key, None, Some(str(0)))
    /\ step' = 2
    /\ UNCHANGED <<workers, swaps, other>>

\* current_val = self.cache.get(shared_key): the SELECT. A row found still
\* has its timestamp to update.
WorkerSelect(t) ==
    /\ step = 2
    /\ workers[t].pc = "get"
    /\ \E time \in ClockReadings : \E pool \in get_session(t, time) :
        /\ now' = time
        /\ connections' = pool
    /\ metadata' = session_metadata(t)
    /\ workers' = [workers EXCEPT
                     ![t].current_val = get_result(cache, shared_key),
                     ![t].pc = IF shared_key \in DOMAIN cache
                               THEN "update" ELSE "compare_and_swap"]
    /\ last' = Call("select", shared_key, None, None,
                    get_result(cache, shared_key), "none")
    /\ UNCHANGED <<cache, max_entries, max_connections, db_path, closed, write_lock,
                   step, swaps, other>>

\* The UPDATE cache SET timestamp and the commit of get_bytes.
WorkerUpdate(t) ==
    /\ workers[t].pc = "update"
    /\ \E time \in ClockReadings :
        /\ now' = time
        /\ cache' = update_timestamp(cache, shared_key, time)
    /\ workers' = [workers EXCEPT ![t].pc = "compare_and_swap"]
    /\ last' = Call("get", shared_key, None, None, workers[t].current_val, "none")
    /\ UNCHANGED <<metadata, max_entries, max_connections, db_path, connections, closed,
                   write_lock, step, swaps, other>>

\* The value a worker tries to store: the one it read plus one.
next_value(current_val) ==
    IF current_val # None THEN str(int(current_val[1]) + 1) ELSE str(0)

\* compare_and_swap(shared_key, current_val, next_value); a reported success
\* is counted and ends the iteration, a failure is retried.
WorkerCompareAndSwap(t) ==
    /\ workers[t].pc = "compare_and_swap"
    /\ compare_and_swap(t, shared_key, workers[t].current_val,
                        Some(next_value(workers[t].current_val)))
    /\ IF last'.ret.success
       THEN /\ workers' = [workers EXCEPT
                   ![t].local_successes = @ + 1,
                   ![t].retry_count = 0,
                   ![t].pc = IF workers[t].local_successes + 1 = IterationsPerThread
                             THEN "done" ELSE "get"]
            /\ swaps' = Append(swaps, workers[t].current_val)
       ELSE /\ workers' = [workers EXCEPT
                   ![t].retry_count = @ + 1,
                   ![t].pc = IF workers[t].retry_count + 1 >= RetryLimit
                             THEN "RuntimeError" ELSE "get"]
            /\ swaps' = swaps
    /\ UNCHANGED <<step, other>>

NextCAS ==
    \/ SetupClear
    \/ SetupCounter
    \/ \E t \in Threads : WorkerSelect(t)
    \/ \E t \in Threads : WorkerUpdate(t)
    \/ \E t \in Threads : WorkerCompareAndSwap(t)

SpecCAS == InitCAS /\ [][NextCAS]_vars

(* ------------------ concurrent put, delete and purge ------------------ *)
\* Threads sharing one cache, as in test_disklru_multithreaded.py, each with
\* its own connection to the same database file. A statement that writes
\* waits until no other connection holds the write lock, and holds it until
\* its connection commits or rolls back; a SELECT outside a transaction reads
\* what has been committed. An operation is therefore one step from the
\* statement that takes the lock to the commit, and one step for the SELECTs
\* that come before it.

\* The locals of a thread inside a call: where it is, the arguments, and what
\* its SELECTs returned; calls counts the calls it has completed.
Frame(pc, key, value, timestamp, key_exists, current_size, to_delete, calls) ==
    [pc |-> pc, key |-> key, value |-> value, timestamp |-> timestamp,
     key_exists |-> key_exists, current_size |-> current_size,
     to_delete |-> to_delete, calls |-> calls]
Idle(calls) == Frame("idle", "", "", 0, FALSE, 0, 0, calls)

\* Mutation of begin_immediate: BEGIN, which takes no lock.
begin_deferred(thread) == write_lock

\* BEGIN IMMEDIATE: the connection of `thread` holds the write lock.
begin_immediate(thread) == Some(thread)

\* A statement of `thread` that writes can run: no other connection holds
\* the write lock.
may_write(thread) == write_lock \in {None, Some(thread)}

InitThreads ==
    /\ InitStore
    /\ max_entries \in 1..MaxEntries
    /\ max_connections = MAX_CONNECTIONS
    /\ step = 0
    /\ workers = [t \in Threads |-> Idle(0)]
    /\ swaps = <<>>
    /\ other = None

\* put_bytes up to its two SELECTs: the session, BEGIN IMMEDIATE, key_exists
\* and current_size.
PutBegin(t) ==
    /\ workers[t].pc = "idle"
    /\ workers[t].calls < CallsPerThread
    /\ write_lock = None
    /\ \E time \in ClockReadings : \E pool \in get_session(t, time) :
        /\ now' = time
        /\ connections' = pool
    /\ metadata' = session_metadata(t)
    /\ write_lock' = begin_immediate(t)
    /\ \E k \in Keys, v \in Values :
           workers' = [workers EXCEPT ![t] =
               Frame("put_bytes", k, v, 0, k \in DOMAIN cache,
                     session_metadata(t)["size"], 0, @.calls)]
    /\ UNCHANGED <<cache, max_entries, max_connections, db_path, closed, last, step, swaps, other>>

\* put_bytes from the eviction to the commit.
PutCommit(t) ==
    LET f == workers[t]
        evict == must_evict(f.key_exists, f.current_size)
    IN  /\ f.pc = "put_bytes"
        /\ may_write(t)
        /\ \E time \in ClockReadings :
            /\ now' = time
            /\ IF evict /\ DOMAIN cache = {}
               THEN /\ UNCHANGED <<cache, metadata>>
                    /\ last' = Call("put", f.key, None, Some(f.value), None, "TypeError")
               ELSE \E lru_key \in (IF evict THEN lru_keys(cache) ELSE {f.key}) :
                       LET transaction ==
                               put_bytes_transaction(Database(cache, metadata),
                                   f.key, encode(f.value), time, f.key_exists,
                                   f.current_size, lru_key)
                       IN  /\ cache' = commit(transaction).cache
                           /\ metadata' = commit(transaction).metadata
                           /\ last' = [Call("put", f.key, None, Some(f.value), None, "none")
                                       EXCEPT !.lru_key = IF evict THEN Some(lru_key) ELSE None]
        /\ write_lock' = None
        /\ workers' = [workers EXCEPT ![t] = Idle(f.calls + 1)]
        /\ UNCHANGED <<max_entries, max_connections, db_path, connections, closed, step, swaps, other>>

\* delete up to its SELECT: the call is over when no row is found.
DeleteSelect(t) ==
    /\ workers[t].pc = "idle"
    /\ workers[t].calls < CallsPerThread
    /\ \E time \in ClockReadings : \E pool \in get_session(t, time) :
        /\ now' = time
        /\ connections' = pool
    /\ metadata' = session_metadata(t)
    /\ \E k \in Keys :
        IF k \in DOMAIN cache
        THEN /\ workers' = [workers EXCEPT ![t] =
                     Frame("delete", k, "", 0, TRUE, 0, 0, @.calls)]
             /\ last' = last
        ELSE /\ workers' = [workers EXCEPT ![t] = Idle(@.calls + 1)]
             /\ last' = Call("delete", k, None, None, None, "none")
    /\ UNCHANGED <<cache, max_entries, max_connections, db_path, closed, write_lock, step, swaps, other>>

\* delete from its DELETE to the commit; rowcount is that of the DELETE.
DeleteCommit(t) ==
    LET f == workers[t]
        transaction == delete_transaction(Database(cache, metadata), f.key)
    IN  /\ f.pc = "delete"
        /\ may_write(t)
        /\ cache' = commit(transaction).cache
        /\ metadata' = commit(transaction).metadata
        /\ last' = [Call("delete", f.key, None, None, None, "none")
                    EXCEPT !.rowcount = IF f.key \in DOMAIN cache
                                        THEN Some(1) ELSE Some(0)]
        /\ workers' = [workers EXCEPT ![t] = Idle(f.calls + 1)]
        /\ UNCHANGED <<now, max_entries, max_connections, db_path, connections, closed,
                       write_lock, step, swaps, other>>

\* purge up to its SELECT COUNT(*).
PurgeCount(t) ==
    /\ workers[t].pc = "idle"
    /\ workers[t].calls < CallsPerThread
    /\ \E time \in ClockReadings : \E pool \in get_session(t, time) :
        /\ now' = time
        /\ connections' = pool
    /\ metadata' = session_metadata(t)
    /\ \E timestamp \in Datetimes :
           workers' = [workers EXCEPT ![t] =
               Frame("purge", "", "", timestamp, FALSE, 0,
                     Cardinality(purged_keys(cache, int_timestamp(timestamp))),
                     @.calls)]
    /\ UNCHANGED <<cache, max_entries, max_connections, db_path, closed, write_lock, last,
                   step, swaps, other>>

\* purge from its DELETE to the commit.
PurgeCommit(t) ==
    LET f == workers[t]
        transaction == purge_transaction(Database(cache, metadata),
                           int_timestamp(f.timestamp), f.to_delete)
    IN  /\ f.pc = "purge"
        /\ may_write(t)
        /\ cache' = commit(transaction).cache
        /\ metadata' = commit(transaction).metadata
        /\ last' = [Call("purge", "", None, Some(f.timestamp), None, "none")
                    EXCEPT !.to_delete = Some(f.to_delete)]
        /\ workers' = [workers EXCEPT ![t] = Idle(f.calls + 1)]
        /\ UNCHANGED <<now, max_entries, max_connections, db_path, connections, closed,
                       write_lock, step, swaps, other>>

NextThreads ==
    \/ \E t \in Threads : PutBegin(t)
    \/ \E t \in Threads : PutCommit(t)
    \/ \E t \in Threads : DeleteSelect(t)
    \/ \E t \in Threads : DeleteCommit(t)
    \/ \E t \in Threads : PurgeCount(t)
    \/ \E t \in Threads : PurgeCommit(t)

SpecThreads == InitThreads /\ [][NextThreads]_vars

\* The threads of test_concurrent_size_limit, which only put.
NextPuts ==
    \/ \E t \in Threads : PutBegin(t)
    \/ \E t \in Threads : PutCommit(t)

SpecPuts == InitThreads /\ [][NextPuts]_vars

\* Threads that only delete, on a cache the main thread has put keys into
\* before they start.
DeletesSetup ==
    /\ step < max_entries
    /\ \A t \in Threads : workers[t] = Idle(0)
    /\ \E k \in Keys, v \in Values : put(MainThread, k, v)
    /\ step' = step + 1
    /\ UNCHANGED <<workers, swaps, other>>

NextDeletes ==
    \/ DeletesSetup
    \/ \E t \in Threads : DeleteSelect(t)
    \/ \E t \in Threads : DeleteCommit(t)

SpecDeletes == InitThreads /\ [][NextDeletes]_vars

(* ---------------------- _get_session, line by line -------------------- *)
\* The threads that share the pool: the main thread and the worker threads.
PoolThreads == {MainThread} \cup Threads

\* The locals of a thread inside _get_session or the call that made it;
\* oldest_threads, the sessions its slow path has dropped (thread id -> last
\* access time), is empty until the slow path has run.
Acquiring(pc, current_time, calls) ==
    [pc |-> pc, current_time |-> current_time, calls |-> calls,
     oldest_threads |-> <<>>]

InitPool ==
    /\ InitStore
    /\ max_entries = MaxEntries
    /\ max_connections \in 1..MaxConnections
    /\ step = 0
    /\ workers = [t \in PoolThreads |-> Acquiring("idle", 0, 0)]
    /\ swaps = <<>>
    /\ other = None

\* current_time = datetime.now(...); con = self._connections.get(thread_id),
\* read without the lock. No other thread stores under this thread's id, so
\* the second lookup, "thread_id in self._connections", finds what the first
\* one found.
SessionLookup(t) ==
    /\ workers[t].pc = "idle"
    /\ workers[t].calls < CallsPerThread
    /\ \E time \in ClockReadings :
        /\ now' = time
        /\ workers' = [workers EXCEPT ![t] =
               Acquiring(IF t \in DOMAIN connections THEN "reuse" ELSE "create",
                         time, @.calls)]
    /\ UNCHANGED <<cache, metadata, max_entries, max_connections, db_path, connections,
                   closed, write_lock, last, step, swaps, other>>

\* self._connections[thread_id] = (conn, cursor, current_time), stored without
\* the lock: the entry is put back when it has been removed since the lookup.
SessionReuse(t) ==
    /\ workers[t].pc = "reuse"
    /\ connections' = [x \in DOMAIN connections \cup {t} |->
                          IF x = t THEN workers[t].current_time ELSE connections[x]]
    /\ workers' = [workers EXCEPT ![t].pc = "ready"]
    /\ UNCHANGED <<cache, metadata, now, max_entries, max_connections, db_path, closed,
                   write_lock, last, step, swaps, other>>

\* The slow path, under self._connections_lock, which a thread holds from
\* here to its store: at the limit the sessions are sorted by access time and
\* those beyond the max_connections - 1 most recent become oldest_threads.
\* The store of the reuse path takes no lock and can run before the next step.
SessionSort(t) ==
    /\ workers[t].pc = "create"
    /\ \A x \in PoolThreads : workers[x].pc # "sorted"
    /\ \E pool \in get_session(t, workers[t].current_time) :
        workers' = [workers EXCEPT
            ![t].pc = "sorted",
            ![t].oldest_threads =
                Restrict(connections, DOMAIN connections \ DOMAIN pool)]
    /\ UNCHANGED <<cache, metadata, now, max_entries, max_connections, db_path,
                   connections, closed, write_lock, last, step, swaps, other>>

\* The rest of the slow path: "del self._connections[old_thread_id]" for each
\* of oldest_threads, the new session runs the schema script and is stored.
SessionCreate(t) ==
    /\ workers[t].pc = "sorted"
    /\ connections' =
           [x \in (DOMAIN connections \ DOMAIN workers[t].oldest_threads) \cup {t} |->
               IF x = t THEN workers[t].current_time ELSE connections[x]]
    /\ metadata' = session_metadata(t)
    /\ workers' = [workers EXCEPT ![t].pc = "ready"]
    /\ UNCHANGED <<cache, now, max_entries, max_connections, db_path, closed, write_lock,
                   last, step, swaps, other>>

\* The call that asked for the session, here get_size, runs on the connection
\* _get_session returned and returns.
SessionUse(t) ==
    /\ workers[t].pc = "ready"
    /\ last' = Call("get_size", "", None, None, metadata["size"], "none")
    /\ workers' = [workers EXCEPT ![t] = Acquiring("idle", 0, @.calls + 1)]
    /\ UNCHANGED <<cache, metadata, now, max_entries, max_connections, db_path,
                   connections, closed, write_lock, step, swaps, other>>

NextPool ==
    \/ \E t \in PoolThreads : SessionLookup(t)
    \/ \E t \in PoolThreads : SessionReuse(t)
    \/ \E t \in PoolThreads : SessionSort(t)
    \/ \E t \in PoolThreads : SessionCreate(t)
    \/ \E t \in PoolThreads : SessionUse(t)

SpecPool == InitPool /\ [][NextPool]_vars

(* --------------------- sessions that are reclaimed --------------------- *)
\* Threads that take turns on a cache with a small pool, opened on a file or
\* on ":memory:". The main thread puts and reads, the other threads only
\* read. With ":memory:" every connection has a database of its own, which
\* is gone when the connection is: the only one that ever holds rows is that
\* of the main thread's connection, cache and metadata stand for it, and a
\* session dropped from the pool while its thread is between two calls is
\* closed at once, nothing else referring to it.

\* What the model keeps of a thread here: reclaimed, its session was dropped
\* from the pool since its last call; calls, the calls it has completed.
Reclaimable(reclaimed, calls) == [reclaimed |-> reclaimed, calls |-> calls]

InitReclaim ==
    /\ cache = <<>>
    /\ metadata = <<>>
    /\ now = 0
    /\ connections = <<>>
    /\ db_path \in {LRU_CACHE_FILE, MEMORY}
    /\ closed = FALSE
    /\ write_lock = None
    /\ last = NoCall
    /\ max_entries = MaxEntries
    /\ max_connections \in 1..MaxConnections
    /\ step = 0
    /\ workers = [t \in PoolThreads |-> Reclaimable(FALSE, 0)]
    /\ swaps = <<>>
    /\ other = None

\* The database the connection of `thread` reads once _get_session has
\* returned it: sqlite3.connect(self.db_path) and the schema script for a new
\* session, the connection kept in the pool otherwise.
session_database(thread) ==
    IF db_path = MEMORY
    THEN IF thread = MainThread /\ thread \in DOMAIN connections
         THEN Database(cache, metadata)
         ELSE Database(<<>>, executescript(<<>>))
    ELSE Database(cache, session_metadata(thread))

\* The database the call of `thread` leaves to its connection.
session_commit(thread, db) ==
    IF db_path = MEMORY /\ thread # MainThread
    THEN UNCHANGED <<cache, metadata>>
    ELSE cache' = db.cache /\ metadata' = db.metadata

\* `thread` has completed a call on a session of `pool`; the threads whose
\* sessions the call dropped from the pool are reclaimed.
session_taken(thread, pool) ==
    workers' = [x \in PoolThreads |->
        IF x = thread
        THEN Reclaimable(FALSE, workers[x].calls + 1)
        ELSE Reclaimable(workers[x].reclaimed
                            \/ (x \in DOMAIN connections /\ x \notin DOMAIN pool),
                         workers[x].calls)]

\* put by the main thread.
ReclaimPut ==
    /\ workers[MainThread].calls < CallsPerThread
    /\ \E k \in Keys, v \in Values, time \in ClockReadings :
       \E pool \in get_session(MainThread, time) :
        LET db == session_database(MainThread)
            key_exists == k \in DOMAIN db.cache
            current_size == db.metadata["size"]
            evict == must_evict(key_exists, current_size)
        IN  /\ now' = time
            /\ connections' = pool
            /\ session_taken(MainThread, pool)
            /\ IF evict /\ DOMAIN db.cache = {}
               THEN /\ session_commit(MainThread, db)
                    /\ last' = Call("put", k, None, Some(v), None, "TypeError")
               ELSE \E lru_key \in (IF evict THEN lru_keys(db.cache) ELSE {k}) :
                    /\ session_commit(MainThread,
                           commit(put_bytes_transaction(db, k, encode(v), time,
                                      key_exists, current_size, lru_key)))
                    /\ last' = [Call("put", k, None, Some(v), None, "none")
                                EXCEPT !.lru_key = IF evict THEN Some(lru_key) ELSE None]
    /\ UNCHANGED <<max_entries, max_connections, db_path, closed, write_lock,
                   step, swaps, other>>

\* get by any thread.
ReclaimGet(t) ==
    /\ workers[t].calls < CallsPerThread
    /\ \E k \in Keys, time \in ClockReadings : \E pool \in get_session(t, time) :
        LET db == session_database(t)
        IN  /\ now' = time
            /\ connections' = pool
            /\ session_taken(t, pool)
            /\ session_commit(t, commit(get_bytes_transaction(db, k, time)))
            /\ last' = Call("get", k, None, None, get_result(db.cache, k), "none")
    /\ UNCHANGED <<max_entries, max_connections, db_path, closed, write_lock,
                   step, swaps, other>>

\* get_size by any thread.
ReclaimGetSize(t) ==
    /\ workers[t].calls < CallsPerThread
    /\ \E time \in ClockReadings : \E pool \in get_session(t, time) :
        LET db == session_database(t)
        IN  /\ now' = time
            /\ connections' = pool
            /\ session_taken(t, pool)
            /\ session_commit(t, db)
            /\ last' = Call("get_size", "", None, None, db.metadata["size"], "none")
    /\ UNCHANGED <<max_entries, max_connections, db_path, closed, write_lock,
                   step, swaps, other>>

NextReclaim ==
    \/ ReclaimPut
    \/ \E t \in PoolThreads : ReclaimGet(t)
    \/ \E t \in PoolThreads : ReclaimGetSize(t)

SpecReclaim == InitReclaim /\ [][NextReclaim]_vars

\* close() by the main thread between the calls: every session leaves the
\* pool, so every thread's next call opens a new session on db_path.
ReclaimClose ==
    /\ connections' = <<>>
    /\ closed' = TRUE
    /\ last' = Call("close", "", None, None, None, "none")
    /\ workers' = [x \in PoolThreads |->
           Reclaimable(workers[x].reclaimed \/ x \in DOMAIN connections,
                       workers[x].calls)]
    /\ UNCHANGED <<cache, metadata, now, max_entries, max_connections, db_path,
                   write_lock, step, swaps, other>>

NextReopen ==
    \/ ReclaimPut
    \/ \E t \in PoolThreads : ReclaimGet(t)
    \/ \E t \in PoolThreads : ReclaimGetSize(t)
    \/ ReclaimClose

SpecReopen == InitReclaim /\ [][NextReopen]_vars

(* ------------------------- two cache instances ------------------------ *)
\* One thread uses two DiskLRUCache objects, the first opened on db_path, the
\* second (other) on OTHER_CACHE_FILE. _connections is an attribute of the
\* class, not of the object: both objects read and write the same dict, in
\* which the thread's id is the only key.

\* The second instance: its db_path, its _closed and the tables of the
\* database at its location.
Instance(path, md, c) ==
    [db_path |-> path, closed |-> FALSE, metadata |-> md, cache |-> c]

\* The locals of the thread: self, the db_path of the instance its last call
\* was made on; conn, the location the connection it has in the pool was
\* opened on; calls, the calls it has completed.
Session(self, conn, calls) == [self |-> self, conn |-> conn, calls |-> calls]

InitInstances ==
    /\ InitStore
    /\ max_entries = MaxEntries
    /\ max_connections = MAX_CONNECTIONS
    /\ step = 0
    /\ workers = [t \in {MainThread} |-> Session(None, None, 0)]
    /\ swaps = <<>>
    /\ other = Instance(OTHER_CACHE_FILE, <<>>, <<>>)

\* The database at a location.
store(path) ==
    IF path = db_path
    THEN Database(cache, metadata)
    ELSE Database(other.cache, other.metadata)

\* The location of the connection _get_session returns to `thread` for the
\* instance `self`: that of the thread's entry in _connections when there is
\* one, whichever instance stored it; sqlite3.connect(self.db_path) otherwise.
session_conn(thread, self) ==
    IF thread \in DOMAIN connections THEN workers[thread].conn[1] ELSE self

\* The database the returned connection reads: a new session has run the
\* schema script on it.
session_store(thread, self) ==
    LET conn == session_conn(thread, self)
    IN  IF thread \in DOMAIN connections
        THEN store(conn)
        ELSE [store(conn) EXCEPT !.metadata = executescript(@)]

\* conn.commit() on the connection opened on `path`.
store_commit(path, db) ==
    IF path = db_path
    THEN /\ cache' = db.cache
         /\ metadata' = db.metadata
         /\ other' = other
    ELSE /\ other' = [other EXCEPT !.cache = db.cache, !.metadata = db.metadata]
         /\ UNCHANGED <<cache, metadata>>

\* self.put(key, value)
InstancePut(t, self) ==
    /\ workers[t].calls < InstanceCalls
    /\ \E k \in Keys, v \in Values, time \in ClockReadings :
       \E pool \in get_session(t, time) :
        LET conn == session_conn(t, self)
            db == session_store(t, self)
            key_exists == k \in DOMAIN db.cache
            current_size == db.metadata["size"]
            evict == must_evict(key_exists, current_size)
        IN  /\ now' = time
            /\ connections' = pool
            /\ workers' = [workers EXCEPT ![t] = Session(Some(self), Some(conn), @.calls + 1)]
            /\ IF evict /\ DOMAIN db.cache = {}
               THEN /\ store_commit(conn, db)
                    /\ last' = Call("put", k, None, Some(v), None, "TypeError")
               ELSE \E lru_key \in (IF evict THEN lru_keys(db.cache) ELSE {k}) :
                    /\ store_commit(conn,
                           commit(put_bytes_transaction(db, k, encode(v), time,
                                      key_exists, current_size, lru_key)))
                    /\ last' = [Call("put", k, None, Some(v), None, "none")
                                EXCEPT !.lru_key = IF evict THEN Some(lru_key) ELSE None,
                                       !.key_exists = key_exists]
    /\ UNCHANGED <<max_entries, max_connections, db_path, closed, write_lock,
                   step, swaps>>

\* self.get(key)
InstanceGet(t, self) ==
    /\ workers[t].calls < InstanceCalls
    /\ \E k \in Keys, time \in ClockReadings : \E pool \in get_session(t, time) :
        LET conn == session_conn(t, self)
            db == session_store(t, self)
        IN  /\ now' = time
            /\ connections' = pool
            /\ workers' = [workers EXCEPT ![t] = Session(Some(self), Some(conn), @.calls + 1)]
            /\ store_commit(conn, commit(get_bytes_transaction(db, k, time)))
            /\ last' = Call("get", k, None, None, get_result(db.cache, k), "none")
    /\ UNCHANGED <<max_entries, max_connections, db_path, closed, write_lock,
                   step, swaps>>

\* self.close(): "self._connections.clear()" empties the dict of the class,
\* "self._closed = True" sets the flag of the instance.
InstanceClose(t, self) ==
    /\ workers[t].calls < InstanceCalls
    /\ connections' = <<>>
    /\ workers' = [workers EXCEPT ![t] = Session(Some(self), None, @.calls + 1)]
    /\ IF self = db_path
       THEN closed' = TRUE /\ other' = other
       ELSE closed' = closed /\ other' = [other EXCEPT !.closed = TRUE]
    /\ last' = Call("close", "", None, None, None, "none")
    /\ UNCHANGED <<cache, metadata, now, max_entries, max_connections, db_path,
                   write_lock, step, swaps>>

NextInstances ==
    \/ \E self \in {db_path, other.db_path} : InstancePut(MainThread, self)
    \/ \E self \in {db_path, other.db_path} : InstanceGet(MainThread, self)
    \/ \E self \in {db_path, other.db_path} : InstanceClose(MainThread, self)

SpecInstances == InitInstances /\ [][NextInstances]_vars

(* ------------------------------ properties ---------------------------- *)
\* What get_size() returns in this state (it opens a session when none is held).
SizeCounter == executescript(metadata)["size"]
\* The number of Entries in the store.
EntryCount == Cardinality(DOMAIN cache)
\* The current state of key k as a caller sees it: its value, or absent.
Current(k) == IF k \in DOMAIN cache THEN Some(decode(cache[k].value)) ELSE None

\* C2: a put of an absent key with SizeCounter >= max_entries removes exactly
\* one Entry, one whose timestamp was least among the Entries present before
\* the put; every other put removes no Entry.
C2_PutEvictsOneLeastRecent ==
    [][(last'.op = "put" /\ last'.raised = "none") =>
        LET removed == DOMAIN cache \ DOMAIN cache'
        IN  IF last'.key \notin DOMAIN cache /\ SizeCounter >= max_entries
            THEN /\ Cardinality(removed) = 1
                 /\ \A e \in removed : \A j \in DOMAIN cache :
                        cache[e].timestamp <= cache[j].timestamp
            ELSE removed = {}]_vars

\* A put has just evicted a row of a full cache whose rows differed in age.
C2_Witness ==
    /\ last.op = "put"
    /\ last.lru_key # None
    /\ last.lru_key[1] \notin DOMAIN cache
    /\ EntryCount = max_entries
    /\ \E j \in DOMAIN cache : j # last.key /\ cache[j].timestamp > 0

\* C4: read-after-write: a get(k) that follows put(k, v) immediately returns v.
C4_ReadAfterWrite ==
    [][(last.op = "put" /\ last.raised = "none"
        /\ last'.op = "get" /\ last'.key = last.key)
       => last'.ret = last.val]_vars

\* A get has just followed a put of its key, the cache being full.
C4_Witness ==
    /\ last.op = "get"
    /\ last.after_put
    /\ last.ret # None
    /\ EntryCount = max_entries

\* C5: after every completed call the SizeCounter equals the number of Entries.
C5_SizeCounterIsEntryCount == SizeCounter = EntryCount

\* C6: a compare_and_swap whose expected value differs from the current state
\* of the key leaves every Entry, every timestamp and the SizeCounter alone.
C6_MismatchLeavesStoreAlone ==
    [][(last'.op = "compare_and_swap" /\ Current(last'.key) # last'.prev)
       => cache' = cache /\ SizeCounter' = SizeCounter]_vars

\* C7: compare_and_swap reports success exactly when the current state of the
\* key equalled the expected one, and on a mismatch returns the current value.
C7_ReportsMismatch ==
    [][last'.op = "compare_and_swap" =>
        /\ last'.ret.success = (Current(last'.key) = last'.prev)
        /\ Current(last'.key) # last'.prev =>
               last'.ret.value = Current(last'.key)]_vars

\* C8: a compare_and_swap(k, expected, new) that finds k as expected stores new
\* for k (counting k when it was absent) or, new being absent, removes k
\* (uncounting it when it was present); no other Entry changes.
C8_MatchAppliesSwap ==
    [][(last'.op = "compare_and_swap" /\ Current(last'.key) = last'.prev) =>
        LET k == last'.key
            new_val == last'.val
        IN  /\ IF new_val # None
               THEN /\ k \in DOMAIN cache'
                    /\ decode(cache'[k].value) = new_val[1]
                    /\ SizeCounter' =
                           SizeCounter + (IF k \in DOMAIN cache THEN 0 ELSE 1)
               ELSE /\ k \notin DOMAIN cache'
                    /\ SizeCounter' =
                           SizeCounter - (IF k \in DOMAIN cache THEN 1 ELSE 0)
            /\ DOMAIN cache' \ {k} = DOMAIN cache \ {k}
            /\ \A j \in DOMAIN cache \ {k} : cache'[j] = cache[j]]_vars

\* A compare_and_swap from absent has just inserted and counted its key.
C8_Witness ==
    /\ last.op = "compare_and_swap"
    /\ last.prev = None
    /\ last.val # None
    /\ last.rowcount = Some(1)
    /\ last.key \in DOMAIN cache

\* C11: once close() has completed, every later get, put, delete, purge, clear,
\* contains, get_size and compare_and_swap raises a Closed error, opens no
\* session and leaves the store as it was.
C11_ClosedCacheFailsFast ==
    [][(closed /\ last'.op \in {"get", "put", "delete", "purge", "clear",
                                "contains", "get_size", "compare_and_swap"})
       => /\ last'.raised = "Closed"
          /\ UNCHANGED <<cache, metadata, connections>>]_vars

\* C12: with threads that put concurrently, nothing is committed between the
\* BEGIN IMMEDIATE of a put and its commit, and after every committed put
\* get_size() is at most max_entries and equals the number of Entries.
C12_ConcurrentPutsAreAtomic ==
    /\ [](SizeCounter <= max_entries /\ SizeCounter = EntryCount)
    /\ [][\A t \in Threads :
              (workers[t].pc = "put_bytes" /\ workers'[t].pc = "put_bytes")
                  => cache' = cache /\ metadata' = metadata]_vars

\* Every thread has put, the last put was of a new key and evicted a row, and
\* the cache is full.
C12_Witness ==
    /\ last.op = "put"
    /\ last.lru_key # None
    /\ \A t \in Threads : workers[t].calls >= 1
    /\ SizeCounter = max_entries
    /\ EntryCount = max_entries

\* C13: a delete raises no error; on a present key it removes that Entry alone
\* and lowers get_size() by exactly 1; on an absent key it leaves every Entry
\* and get_size() unchanged; a get of the key right after it returns absent.
C13_DeleteRemovesOnlyKey ==
    [][/\ last'.op = "delete" =>
           /\ last'.raised = "none"
           /\ last'.key \notin DOMAIN cache'
           /\ \A j \in DOMAIN cache \ {last'.key} :
                  j \in DOMAIN cache' /\ cache'[j] = cache[j]
           /\ DOMAIN cache' \subseteq DOMAIN cache
           /\ SizeCounter' =
                  SizeCounter - (IF last'.key \in DOMAIN cache THEN 1 ELSE 0)
       /\ (last.op = "delete" /\ last'.op = "get" /\ last'.key = last.key)
              => last'.ret = None]_vars

\* A delete has just removed its key from a cache that holds another Entry.
C13_Witness ==
    /\ last.op = "delete"
    /\ last.rowcount = Some(1)
    /\ last.key \notin DOMAIN cache
    /\ EntryCount > 0

C15_ClearEmptiesCache ==
    [][/\ last'.op = "clear" =>
           /\ last'.raised = "none"
           /\ SizeCounter' = 0
           /\ \A k \in Keys : get_result(cache', k) = None
       /\ (last.op = "clear" /\ last'.op = "get") => last'.ret = None
       /\ (last.op = "clear" /\ last'.op = "get_size") => last'.ret = 0]_vars

\* A clear has just removed the Entries of a full cache.
C15_Witness ==
    /\ last.op = "clear"
    /\ last.rowcount # None
    /\ last.rowcount[1] >= max_entries
    /\ EntryCount = 0

\* C16: whatever the interleaving of the threads that take sessions, the pool
\* never holds more than max_connections sessions.
C16_PoolWithinMaxConnections ==
    Cardinality(DOMAIN connections) <= max_connections

\* C17: when a store error ends a put, get, delete, purge, clear or
\* compare_and_swap, whatever number of its statements had run, the error is
\* raised to the caller and the Entries and the SizeCounter are what they
\* were before the call.
C17_StoreErrorRollsBack ==
    [][last'.executed # None
       => /\ last'.raised = "sqlite3.Error"
          /\ cache' = cache
          /\ SizeCounter' = SizeCounter]_vars

\* A clear has failed at its commit, both its statements executed, and the
\* Entries of the full cache are still there.
C17_Witness ==
    /\ last.op = "clear"
    /\ last.raised = "sqlite3.Error"
    /\ last.executed = Some(2)
    /\ EntryCount = max_entries

\* C18: the next call of a thread whose session was reclaimed raises no error,
\* leaves the thread with a pooled session, and reads the Entries and the
\* SizeCounter that the calls committed before it left: a get returns the
\* stored value, a get_size the counter, and a put removes no Entry but the
\* one it evicts.
C18_ReclaimedSessionIsRecreated ==
    [][\A t \in PoolThreads :
          (workers[t].reclaimed /\ workers'[t].calls = workers[t].calls + 1)
          => /\ last'.raised = "none"
             /\ t \in DOMAIN connections'
             /\ last'.op = "get" => last'.ret = get_result(cache, last'.key)
             /\ last'.op = "get_size" => last'.ret = SizeCounter
             /\ last'.op = "put" =>
                    DOMAIN cache \ DOMAIN cache' \subseteq
                        (IF last'.lru_key # None THEN {last'.lru_key[1]} ELSE {})]_vars

\* C19: with threads that delete concurrently, the SizeCounter is lowered once
\* per Entry removed: it equals the number of Entries and is never below 0.
C19_ConcurrentDeletesCountOnce ==
    SizeCounter = EntryCount /\ SizeCounter >= 0

\* C20: a purge that runs while other threads put and delete subtracts from
\* the SizeCounter exactly the number of Entries it removes.
C20_PurgeSubtractsWhatItRemoves ==
    [][\A t \in Threads :
          (workers[t].pc = "purge" /\ workers'[t].pc = "idle")
              => SizeCounter - SizeCounter' =
                     Cardinality(DOMAIN cache \ DOMAIN cache')]_vars

\* C21: a put of a key that has an Entry, the counter at max_entries or not,
\* completes without error, removes no Entry, leaves the counter and every
\* other Entry as they were, and leaves k with the value put and with the
\* time of the put as its timestamp, no Entry having a later one.
C21_PutOnExistingKeyReplaces ==
    [][(last'.op = "put" /\ last'.key \in DOMAIN cache) =>
        LET k == last'.key
        IN  /\ last'.raised = "none"
            /\ last'.lru_key = None
            /\ DOMAIN cache' = DOMAIN cache
            /\ SizeCounter' = SizeCounter
            /\ \A j \in DOMAIN cache \ {k} : cache'[j] = cache[j]
            /\ Some(decode(cache'[k].value)) = last'.val
            /\ cache'[k].timestamp = now'
            /\ \A j \in DOMAIN cache' : cache'[j].timestamp <= cache'[k].timestamp]_vars

\* C21 happens: a put has replaced the value of an Entry, another Entry
\* being present, with the counter at max_entries.
C21_Witness ==
    /\ last.op = "put"
    /\ last.key_exists
    /\ last.raised = "none"
    /\ SizeCounter = max_entries
    /\ EntryCount = max_entries
    /\ EntryCount >= 2

\* C22: when the slow path of _get_session runs for a thread without a
\* session and the pool holds max_connections sessions, it picks exactly one
\* session to drop, none in the pool having been accessed before that one;
\* it then removes the session it picked and no other, every other session
\* keeping its access time, and adds the thread's own.
C22_ReclaimsOldestSession ==
    [][\A t \in PoolThreads :
          /\ (/\ workers[t].pc = "create"
              /\ workers'[t].pc = "sorted"
              /\ Cardinality(DOMAIN connections) = max_connections)
             => LET oldest_threads == workers'[t].oldest_threads
                IN  /\ t \notin DOMAIN connections
                    /\ Cardinality(DOMAIN oldest_threads) = 1
                    /\ \A r \in DOMAIN oldest_threads :
                           /\ r \in DOMAIN connections
                           /\ oldest_threads[r] = connections[r]
                           /\ \A j \in DOMAIN connections :
                                  connections[r] <= connections[j]
          /\ (workers[t].pc = "sorted" /\ workers'[t].pc = "ready")
             => /\ DOMAIN connections \ DOMAIN connections'
                       = DOMAIN workers[t].oldest_threads
                /\ \A j \in DOMAIN connections \ DOMAIN workers[t].oldest_threads :
                       /\ j \in DOMAIN connections'
                       /\ connections'[j] = connections[j]
                /\ t \in DOMAIN connections'
                /\ connections'[t] = workers[t].current_time]_vars

\* C22 happens: a thread has taken a session from a pool of two that was
\* full, the session dropped being strictly older than the one that stayed.
C22_Witness ==
    \E t \in PoolThreads :
        /\ workers[t].pc = "ready"
        /\ max_connections = 2
        /\ Cardinality(DOMAIN connections) = 2
        /\ Cardinality(DOMAIN workers[t].oldest_threads) = 1
        /\ \E r \in DOMAIN workers[t].oldest_threads :
           \E j \in DOMAIN connections \ {t} :
               workers[t].oldest_threads[r] < connections[j]

\* C23: a call for which _get_session creates a new session (the thread's
\* first call, its first after its session was reclaimed, its first after
\* close) finds the store as the calls before it left it: a get returns the
\* stored value and removes or alters no Entry's value, a get_size returns
\* the counter, and neither changes the counter.
C23_NewSessionKeepsState ==
    [][\A t \in PoolThreads :
          (/\ t \notin DOMAIN connections
           /\ workers'[t].calls = workers[t].calls + 1
           /\ last'.op \in {"get", "get_size"})
          => /\ last'.raised = "none"
             /\ last'.op = "get" => last'.ret = get_result(cache, last'.key)
             /\ last'.op = "get_size" => last'.ret = SizeCounter
             /\ DOMAIN cache' = DOMAIN cache
             /\ \A k \in DOMAIN cache : cache'[k].value = cache[k].value
             /\ SizeCounter' = SizeCounter]_vars

\* C24: every call on one of two instances opened on different locations
\* reads and writes the database at that instance's db_path only (a get
\* returns what that database holds for the key, a put leaves its value
\* there, the database of the other instance is left as it was), and a close
\* of one instance leaves in the pool a session the other instance opened.
C24_InstancesKeepApart ==
    [][\A self \in {LRU_CACHE_FILE, OTHER_CACHE_FILE} :
       \A t \in {MainThread} :
          (workers'[t].calls = workers[t].calls + 1 /\ workers'[t].self = Some(self))
          => LET theirs == CHOOSE path \in {LRU_CACHE_FILE, OTHER_CACHE_FILE} : path # self
             IN  /\ store(theirs)'.cache = store(theirs).cache
                 /\ store(theirs)'.metadata = store(theirs).metadata
                 /\ last'.op = "get" =>
                        last'.ret = get_result(store(self).cache, last'.key)
                 /\ (last'.op = "put" /\ last'.raised = "none") =>
                        get_result(store(self)'.cache, last'.key) = last'.val
                 /\ (last'.op = "close" /\ t \in DOMAIN connections
                                        /\ workers[t].conn = Some(theirs)) =>
                        t \in DOMAIN connections']_vars

\* C10: the number of Entries never exceeds max_entries.
C10_EntryCountWithinMax == EntryCount <= max_entries

\* C1: while put is the only operation that adds Entries, get_size() never
\* exceeds max_entries.
C1_SizeWithinMaxEntries == SizeCounter <= max_entries

\* A put into a full cache has just evicted, and the counter is at the limit.
C1_Witness ==
    /\ last.op = "put"
    /\ last.lru_key # None
    /\ SizeCounter = max_entries

\* C3: after put key1..key4, get key1, put key5 on a cache of 4 Entries, key2
\* is the one evicted: key1, key3, key4 and key5 are present.
C3_RefreshedKeySurvives ==
    step = LruMaxEntries + 2 =>
        DOMAIN cache = {KeyNames[1], KeyNames[3], KeyNames[4], KeyNames[5]}

\* C9: among the worker threads no two compare_and_swap calls that report
\* success swapped from the same prior value; once every worker is done the
\* key holds N*M, N*M calls have reported success, M of them to each worker.
C9_NoLostUpdate ==
    /\ \A i, j \in DOMAIN swaps : swaps[i] = swaps[j] => i = j
    /\ (\A t \in Threads : workers[t].pc = "done") =>
          /\ Current(shared_key) = Some(str(NumThreads * IterationsPerThread))
          /\ Len(swaps) = NumThreads * IterationsPerThread
          /\ \A t \in Threads : workers[t].local_successes = IterationsPerThread

====
